---- MODULE Spec2Model ----
(***************************************************************************)
(* Model of src/app.py, a Streamlit page: every user interaction re-runs   *)
(* the whole script top to bottom.  The script reloads the uploaded file   *)
(* (load_data, cached), then walks through the cleaning blocks in the      *)
(* order they are written, then the visualization block, then the export   *)
(* block.  Checkbox, radio, select and text widgets keep their value       *)
(* between runs while they are rendered; a button is True only in the run  *)
(* that its click triggers.                                                 *)
(*                                                                         *)
(* Cells.  A cell is a record [k, n, d, f, s]:                             *)
(*   k = "nan"   missing (NaN / NaT / None)                                *)
(*   k = "num"   the number n/d (reduced, d >= 1); float64 arithmetic is   *)
(*               modelled by exact rationals                               *)
(*   k = "str"   text: f = "lit" is the literal text s; f = "int" and      *)
(*               f = "float" are the decimal renderings of n/d as str()    *)
(*               of an int64 ("3") and of a float64 ("3.0") produces them  *)
(*               f = "timestamp" is the text of the timestamp n/d          *)
(*   k = "date"  the timestamp n/d nanoseconds after 1970-01-01            *)
(* A table is [columns, dtypes, rows]: the column names in order, the      *)
(* pandas dtype of each column and the rows (each a function from column   *)
(* name to cell).  The row index labels are not modelled: nothing in the   *)
(* script reads them (to_csv and to_excel are called with index=False).    *)
(* pandas semantics are those of pandas 1.x/2.x.                           *)
(***************************************************************************)
EXTENDS Integers, Sequences, FiniteSets, TLC

\* ------------------------------------------------------------------ bounds
MaxRows == 3

\* ------------------------------------------------------------------ cells
NaN == [k |-> "nan", n |-> 0, d |-> 1, f |-> "", s |-> ""]

RECURSIVE GCD(_, _)
GCD(x, y) == IF y = 0 THEN x ELSE GCD(y, x % y)

Num(n, d) == LET g == GCD(n, d)
             IN [k |-> "num", n |-> n \div g, d |-> d \div g, f |-> "", s |-> ""]

Lit(s) == [k |-> "str", n |-> 0, d |-> 1, f |-> "lit", s |-> s]

isnull(c) == c.k = "nan"

NumericDtypes == {"int64", "float64"}

\* ------------------------------------------------------------------ tables
ColSet(t) == {t.columns[i] : i \in 1..Len(t.columns)}

shape0(t) == Len(t.rows)

RECURSIVE SelectSeq2(_, _, _)
\* the elements s[i] of s, in order, whose position i satisfies keep[i]
SelectSeq2(s, keep, i) ==
    IF i > Len(s) THEN <<>>
    ELSE (IF keep[i] THEN <<s[i]>> ELSE <<>>) \o SelectSeq2(s, keep, i + 1)

KeepRows(t, keep) == [t EXCEPT !.rows = SelectSeq2(t.rows, keep, 1)]

\* DataFrame.duplicated(): row i repeats an earlier row in every column
\* (missing cells compare equal to each other)
duplicated(t) == [i \in 1..Len(t.rows) |-> \E j \in 1..(i - 1) : t.rows[j] = t.rows[i]]

CountTrue(m) == Cardinality({i \in DOMAIN m : m[i]})

\* drop_duplicates(keep=False): every copy of a repeated row goes
drop_duplicates_keep_false(t) ==
    KeepRows(t, [i \in 1..Len(t.rows) |->
                   ~\E j \in 1..Len(t.rows) : j # i /\ t.rows[j] = t.rows[i]])

drop_duplicates(t) == KeepRows(t, [i \in 1..Len(t.rows) |-> ~duplicated(t)[i]])

\* DataFrame.isnull().any(axis=1)
RowHasNull(t) == [i \in 1..Len(t.rows) |-> \E c \in ColSet(t) : isnull(t.rows[i][c])]

\* dropna(how='all'): only the rows with every cell missing go
dropna_how_all(t) ==
    KeepRows(t, [i \in 1..Len(t.rows) |-> \E c \in ColSet(t) : ~isnull(t.rows[i][c])])

dropna(t) == KeepRows(t, [i \in 1..Len(t.rows) |-> ~RowHasNull(t)[i]])

\* DataFrame.select_dtypes(include=['number']).columns
select_dtypes_number(t) == SelectSeq(t.columns, LAMBDA c : t.dtypes[c] \in NumericDtypes)

ColHasNull(t, c) == \E i \in 1..Len(t.rows) : isnull(t.rows[i][c])

RECURSIVE SumN(_, _, _)
RECURSIVE SumD(_, _, _)
\* sum of the non-missing cells of column c from row i on, as SumN/SumD
SumD(t, c, i) ==
    IF i > Len(t.rows) THEN 1
    ELSE IF isnull(t.rows[i][c]) THEN SumD(t, c, i + 1)
    ELSE t.rows[i][c].d * SumD(t, c, i + 1)
SumN(t, c, i) ==
    IF i > Len(t.rows) THEN 0
    ELSE IF isnull(t.rows[i][c]) THEN SumN(t, c, i + 1)
    ELSE t.rows[i][c].n * SumD(t, c, i + 1) + t.rows[i][c].d * SumN(t, c, i + 1)

CountNotNull(t, c) == Cardinality({i \in 1..Len(t.rows) : ~isnull(t.rows[i][c])})

\* the sum of the non-missing cells divided by the length of the column
mean_over_len(t, c) ==
    IF CountNotNull(t, c) = 0 THEN NaN
    ELSE Num(SumN(t, c, 1), SumD(t, c, 1) * Len(t.rows))

\* Series.mean(): mean of the non-missing cells, NaN when there is none
mean(t, c) ==
    IF CountNotNull(t, c) = 0 THEN NaN
    ELSE Num(SumN(t, c, 1), SumD(t, c, 1) * CountNotNull(t, c))

\* data[col] = data[col].fillna(v) for a numeric v: the column stays float64
FillColumn(t, c, v) ==
    [t EXCEPT !.rows = [i \in 1..Len(t.rows) |->
                          [t.rows[i] EXCEPT ![c] = IF isnull(@) THEN v ELSE @]],
              !.dtypes = [@ EXCEPT ![c] = IF isnull(v) THEN @ ELSE "float64"]]

RECURSIVE FillMeanCols(_, _, _)
\* the loop of lines 126-128 over numeric_cols[i..]
FillMeanCols(t, cols, i) ==
    IF i > Len(cols) THEN t
    ELSE FillMeanCols(IF ColHasNull(t, cols[i])
                      THEN FillColumn(t, cols[i], mean(t, cols[i]))
                      ELSE t,
                      cols, i + 1)

\* a fill that refuses to put text into a numeric column
fillna_object_only(t, v) ==
    [t EXCEPT !.rows = [i \in 1..Len(t.rows) |->
                          [c \in ColSet(t) |->
                             IF isnull(t.rows[i][c]) /\ t.dtypes[c] \notin NumericDtypes
                             THEN v ELSE t.rows[i][c]]]]

\* DataFrame.fillna(v) with a str v: every missing cell becomes the text v;
\* a column that held a missing cell and was not object becomes object
fillna(t, v) ==
    [t EXCEPT !.rows = [i \in 1..Len(t.rows) |->
                          [c \in ColSet(t) |->
                             IF isnull(t.rows[i][c]) THEN v ELSE t.rows[i][c]]],
              !.dtypes = [c \in ColSet(t) |->
                             IF ColHasNull(t, c) THEN "object" ELSE t.dtypes[c]]]

\* ------------------------------------------------------------------ conversions
\* the text str(x) of a cell of a column of dtype dt, as Series.astype(str)
\* writes it: an int64 prints without a fraction, a float64 with one, a
\* missing cell prints as the text "nan"
astype_str(c, dt) ==
    CASE c.k = "nan" -> Lit("nan")
      [] c.k = "str" -> c
      [] c.k = "num" -> [k |-> "str", n |-> c.n, d |-> c.d,
                         f |-> IF dt = "int64" THEN "int" ELSE "float", s |-> ""]
      [] c.k = "date" -> IF c.n = 0 THEN Lit("1970-01-01")
                         ELSE [k |-> "str", n |-> c.n, d |-> c.d,
                               f |-> "timestamp", s |-> ""]

\* the texts the float parser of pd.to_numeric accepts
IsNumericText(c) == c.k = "str" /\ (c.f \in {"int", "float"} \/ c = Lit("nan"))

\* pd.to_numeric raises ValueError("Unable to parse string ...") on this cell
to_numeric_raises(c) == c.k = "str" /\ ~IsNumericText(c)

to_numeric_cell(c) ==
    CASE c.k = "nan" -> NaN
      [] c.k = "num" -> c
      [] c.k = "str" /\ c.f \in {"int", "float"} -> Num(c.n, c.d)
      [] c = Lit("nan") -> NaN
      [] c.k = "date" -> Num(c.n, c.d)

\* the date texts of the model (the epoch, so that its timestamp is 0); a
\* text that reads as a number below 1000 is rejected by the date parser
\* ("not likely a datetime"), and every number of the model is below 1000
DateTexts == {"1970-01-01"}

to_datetime_raises(c) == c.k = "str" /\ ~(c.f = "lit" /\ c.s \in DateTexts)

to_datetime_cell(c) ==
    CASE c.k = "nan" -> NaN
      [] c.k = "num" -> [k |-> "date", n |-> c.n, d |-> c.d, f |-> "", s |-> ""]
      [] c.k = "str" -> [k |-> "date", n |-> 0, d |-> 1, f |-> "", s |-> ""]
      [] c.k = "date" -> c

\* the exception raised by the right-hand side of lines 148-154, if any
ConversionRaises(t, col, target_type) ==
    CASE target_type = "string"   -> FALSE
      [] target_type = "number"   ->
            /\ t.dtypes[col] \notin NumericDtypes
            /\ \E i \in 1..Len(t.rows) : to_numeric_raises(t.rows[i][col])
      [] target_type = "date"     ->
            \E i \in 1..Len(t.rows) : to_datetime_raises(t.rows[i][col])
      [] target_type = "category" -> FALSE

\* the converted cell, for a conversion that does not raise
ConvertedCell(c, dt, target_type) ==
    CASE target_type = "string"   -> astype_str(c, dt)
      [] target_type = "number"   -> IF dt \in NumericDtypes THEN c ELSE to_numeric_cell(c)
      [] target_type = "date"     -> to_datetime_cell(c)
      [] target_type = "category" -> c

\* the dtype of the converted column: pd.to_numeric gives int64 when every
\* parsed value is an integer written without a fraction, float64 otherwise
ConvertedDtype(t, col, target_type) ==
    CASE target_type = "string"   -> "object"
      [] target_type = "number"   ->
            IF t.dtypes[col] \in NumericDtypes THEN t.dtypes[col]
            ELSE IF \A i \in 1..Len(t.rows) :
                      t.rows[i][col].k = "str" /\ t.rows[i][col].f = "int"
                 THEN "int64" ELSE "float64"
      [] target_type = "date"     -> "datetime64[ns]"
      [] target_type = "category" -> "category"

\* data[col] = <converted series>: the assignment of lines 148-154
AssignConverted(t, col, target_type) ==
    [t EXCEPT !.rows = [i \in 1..Len(t.rows) |->
                          [t.rows[i] EXCEPT ![col] =
                              ConvertedCell(@, t.dtypes[col], target_type)]],
              !.dtypes = [@ EXCEPT ![col] = ConvertedDtype(t, col, target_type)]]

\* the selected columns in the order the table has them
getitem_columns_table_order(t, selected_cols) ==
    LET S == {selected_cols[i] : i \in 1..Len(selected_cols)}
    IN [columns |-> SelectSeq(t.columns, LAMBDA c : c \in S),
        dtypes  |-> [c \in S |-> t.dtypes[c]],
        rows    |-> [i \in 1..Len(t.rows) |-> [c \in S |-> t.rows[i][c]]]]

\* data[selected_cols]
getitem_columns(t, selected_cols) ==
    LET S == {selected_cols[i] : i \in 1..Len(selected_cols)}
    IN [columns |-> selected_cols,
        dtypes  |-> [c \in S |-> t.dtypes[c]],
        rows    |-> [i \in 1..Len(t.rows) |-> [c \in S |-> t.rows[i][c]]]]

\* ------------------------------------------------------------------ messages
Msg(level, text, count) == [level |-> level, text |-> text, count |-> count]

\* ------------------------------------------------------------------ cleaning blocks
\* Each block maps the working table to [data, msgs, applied]: the working
\* table after the block, the messages it shows and the steps it applied.

Skip(data) == [data |-> data, msgs |-> <<>>, applied |-> <<>>]

\* lines 98-104
RemoveDuplicateRows(data, checked) ==
    IF ~checked THEN Skip(data)
    ELSE LET duplicate_count == CountTrue(duplicated(data))
         IN IF duplicate_count > 0
            THEN [data |-> drop_duplicates(data),
                  msgs |-> <<Msg("success", "Removed duplicate rows", duplicate_count)>>,
                  applied |-> <<"RemoveDuplicates">>]
            ELSE [data |-> data,
                  msgs |-> <<Msg("info", "No duplicates found", 0)>>,
                  applied |-> <<"RemoveDuplicates">>]

\* lines 115-121
DropMissing(data) ==
    LET missing_count == CountTrue(RowHasNull(data))
    IN IF missing_count > 0
       THEN [data |-> dropna(data),
             msgs |-> <<Msg("success", "Dropped rows with missing values", missing_count)>>,
             applied |-> <<"DropMissing">>]
       ELSE [data |-> data,
             msgs |-> <<Msg("info", "No missing values found", 0)>>,
             applied |-> <<"DropMissing">>]

\* lines 123-131
FillMissingWithMean(data) ==
    LET numeric_cols == select_dtypes_number(data)
    IN IF Len(numeric_cols) > 0
       THEN [data |-> FillMeanCols(data, numeric_cols, 1),
             msgs |-> <<Msg("success", "Filled numeric columns with their means", 0)>>,
             applied |-> <<"FillMissingWithMean">>]
       ELSE [data |-> data,
             msgs |-> <<Msg("warning", "No numeric columns found", 0)>>,
             applied |-> <<>>]

\* lines 133-137
FillMissingWithConstant(data, fill_value, clicked) ==
    IF ~clicked THEN Skip(data)
    ELSE [data |-> fillna(data, fill_value),
          msgs |-> <<Msg("success", "Filled all missing values", 0)>>,
          applied |-> <<"FillMissingWithConstant">>]

\* lines 107-137
HandleMissingValues(data, checked, missing_method, fill_value, clicked) ==
    IF ~checked THEN Skip(data)
    ELSE CASE missing_method = "Drop rows with any missing values" -> DropMissing(data)
           [] missing_method = "Fill numeric columns with mean" -> FillMissingWithMean(data)
           [] missing_method = "Fill with custom value" ->
                 FillMissingWithConstant(data, fill_value, clicked)

\* a conversion that writes the column cell by cell and stops at the cell
\* that raises, leaving the cells before it converted
ConvertColumnType_inplace(data, checked, col_to_convert, target_type, clicked) ==
    IF ~(checked /\ clicked) THEN Skip(data)
    ELSE IF ConversionRaises(data, col_to_convert, target_type)
         THEN LET bad(i) == IF target_type = "number"
                            THEN to_numeric_raises(data.rows[i][col_to_convert])
                            ELSE to_datetime_raises(data.rows[i][col_to_convert])
              IN [data |-> [data EXCEPT !.rows = [i \in 1..Len(data.rows) |->
                              IF \E j \in 1..i : bad(j) THEN data.rows[i]
                              ELSE [data.rows[i] EXCEPT ![col_to_convert] =
                                      ConvertedCell(@, data.dtypes[col_to_convert],
                                                    target_type)]]],
                  msgs |-> <<Msg("error", "Error converting column", 0)>>,
                  applied |-> <<>>]
         ELSE [data |-> AssignConverted(data, col_to_convert, target_type),
               msgs |-> <<Msg("success", "Converted column", 0)>>,
               applied |-> <<"ConvertColumnType">>]

\* lines 141-157
ConvertColumnType(data, checked, col_to_convert, target_type, clicked) ==
    IF ~(checked /\ clicked) THEN Skip(data)
    ELSE IF ConversionRaises(data, col_to_convert, target_type)
         THEN [data |-> data,
               msgs |-> <<Msg("error", "Error converting column", 0)>>,
               applied |-> <<>>]
         ELSE [data |-> AssignConverted(data, col_to_convert, target_type),
               msgs |-> <<Msg("success", "Converted column", 0)>>,
               applied |-> <<"ConvertColumnType">>]

\* lines 160-167
SelectColumns(data, checked, selected_cols, clicked) ==
    IF ~(checked /\ clicked) THEN Skip(data)
    ELSE IF selected_cols # <<>>
         THEN [data |-> getitem_columns(data, selected_cols),
               msgs |-> <<Msg("success", "Kept columns", Len(selected_cols))>>,
               applied |-> <<"SelectColumns">>]
         ELSE [data |-> data,
               msgs |-> <<Msg("warning", "Please select at least one column", 0)>>,
               applied |-> <<>>]

\* ------------------------------------------------------------------ files and widgets
Cols == <<"a", "b">>

NoTable == [columns |-> <<>>, dtypes |-> <<>>, rows |-> <<>>]

IntCell(n) == Num(n, 1)

\* the dtype the decoder infers for a column from its cells
InferDtype(cells) ==
    IF \E i \in DOMAIN cells : cells[i].k = "str" THEN "object"
    ELSE IF \E i \in DOMAIN cells : cells[i].k = "nan" THEN "float64"
    ELSE IF DOMAIN cells = {} THEN "object"
    ELSE "int64"

\* the table pd.read_csv / pd.read_excel decodes from rows of cells
Decoded(rows) ==
    [columns |-> Cols,
     dtypes  |-> [c \in {"a", "b"} |-> InferDtype([i \in 1..Len(rows) |-> rows[i][c]])],
     rows    |-> rows]

Row(x, y) == [c \in {"a", "b"} |-> IF c = "a" THEN x ELSE y]

\* an uploaded file: its name, whether its bytes decode, and what they decode to
File(stem, ext, ok, rows) ==
    [stem |-> stem, ext |-> ext, ok |-> ok,
     table |-> IF ok THEN Decoded(rows) ELSE NoTable]

None == File("", "", FALSE, <<>>)

\* a,b / 1,2 / 1,2 / 3,
ScenarioCsv == File("scenario", ".csv", TRUE,
                    <<Row(IntCell(1), IntCell(2)), Row(IntCell(1), IntCell(2)), Row(IntCell(3), NaN)>>)

\* one numeric column with a missing value, one text column
MixedXlsx == File("mixed", ".xlsx", TRUE,
                  <<Row(IntCell(1), Lit("x")), Row(NaN, Lit("1970-01-01")),
                    Row(IntCell(1), Lit("x"))>>)

\* no numeric column
TextCsv == File("text", ".csv", TRUE, <<Row(Lit("1970-01-01"), Lit("x"))>>)

\* an empty file: pd.read_csv raises EmptyDataError
EmptyCsv == File("empty", ".csv", FALSE, <<>>)

\* the uploader accepts the extension whatever its case, endswith('.csv') does not
UpperCsv == File("upper", ".CSV", TRUE, <<Row(IntCell(1), IntCell(2))>>)

Files == {ScenarioCsv, MixedXlsx, TextCsv, EmptyCsv, UpperCsv}

MissingMethods == {"Drop rows with any missing values",
                   "Fill numeric columns with mean",
                   "Fill with custom value"}

TargetTypes == {"string", "number", "date", "category"}

ChartTypes == {"Bar Chart", "Line Chart", "Scatter Plot", "Histogram", "Box Plot",
               "Correlation Matrix"}

ExportFormats == {"CSV", "Excel"}

\* the text "0" is the default of the text input
FillValues == {[k |-> "str", n |-> 0, d |-> 1, f |-> "int", s |-> ""], Lit("x")}

\* the value every widget has when it is first rendered
Defaults ==
    [dup |-> FALSE, missing |-> FALSE,
     missing_method |-> "Drop rows with any missing values",
     fill_value |-> [k |-> "str", n |-> 0, d |-> 1, f |-> "int", s |-> ""],
     convert |-> FALSE, col_to_convert |-> Cols[1], target_type |-> "string",
     select |-> FALSE, selected_cols |-> Cols,
     chart_type |-> "Bar Chart", export_format |-> "CSV"]

\* a loader whose last branch reads the file as CSV instead of refusing it
load_data_fallthrough(file) ==
    IF file.ok
    THEN [data |-> file.table, loaded |-> TRUE, msgs |-> <<>>]
    ELSE [data |-> NoTable, loaded |-> FALSE,
          msgs |-> <<Msg("error", "Error loading file", 0)>>]

\* lines 51-63
load_data(file) ==
    IF file.ext = ".csv" \/ file.ext \in {".xls", ".xlsx"}
    THEN IF file.ok
         THEN [data |-> file.table, loaded |-> TRUE, msgs |-> <<>>]
         ELSE [data |-> NoTable, loaded |-> FALSE,
               msgs |-> <<Msg("error", "Error loading file", 0)>>]
    ELSE [data |-> NoTable, loaded |-> FALSE,
          msgs |-> <<Msg("error", "Unsupported file type!", 0)>>]

NoChart == [kind |-> "none", columns |-> <<>>]

NoExport == [format |-> "none"]

\* a chart builder that refuses a correlation matrix of fewer than 2 columns
DataVisualization_two_columns(data, chart_type, clicked, plot_ok) ==
    LET numeric_columns == select_dtypes_number(data)
    IN IF Len(numeric_columns) >= 1
       THEN IF ~clicked THEN [chart |-> NoChart, msgs |-> <<>>]
            ELSE IF chart_type = "Correlation Matrix" /\ Len(numeric_columns) >= 2
                 THEN [chart |-> [kind |-> chart_type, columns |-> numeric_columns],
                       msgs |-> <<>>]
                 ELSE IF plot_ok /\ chart_type # "Correlation Matrix"
                      THEN [chart |-> [kind |-> chart_type, columns |-> <<>>],
                            msgs |-> <<>>]
                      ELSE [chart |-> [kind |-> "error", columns |-> <<>>],
                            msgs |-> <<Msg("error", "Error generating visualization", 0)>>]
       ELSE [chart |-> NoChart,
             msgs |-> <<Msg("warning", "Your dataset needs numeric columns", 0)>>]

\* lines 170-242; plot_ok is whether the plotting library draws the chart of
\* a kind other than Correlation Matrix without raising
DataVisualization(data, chart_type, clicked, plot_ok) ==
    LET numeric_columns == select_dtypes_number(data)
    IN IF Len(numeric_columns) >= 1
       THEN IF ~clicked THEN [chart |-> NoChart, msgs |-> <<>>]
            ELSE IF chart_type = "Correlation Matrix"
                 THEN [chart |-> [kind |-> chart_type, columns |-> numeric_columns],
                       msgs |-> <<>>]
                 ELSE IF plot_ok
                      THEN [chart |-> [kind |-> chart_type, columns |-> <<>>],
                            msgs |-> <<>>]
                      ELSE [chart |-> [kind |-> "error", columns |-> <<>>],
                            msgs |-> <<Msg("error", "Error generating visualization", 0)>>]
       ELSE [chart |-> NoChart,
             msgs |-> <<Msg("warning", "Your dataset needs numeric columns", 0)>>]

\* lines 245-278
ExportProcessedData(data, export_format, clicked) ==
    IF ~clicked THEN [export |-> NoExport, msgs |-> <<>>]
    ELSE [export |-> [format |-> export_format],
          msgs |-> <<Msg("success", "File ready for download", 0)>>]

\* lines 89-167: the four cleaning blocks in the order the script runs them
DataCleaningTools(data, w, button) ==
    LET r1 == RemoveDuplicateRows(data, w.dup)
        r2 == HandleMissingValues(r1.data, w.missing, w.missing_method, w.fill_value,
                                  button = "Fill Missing Values")
        r3 == ConvertColumnType(r2.data, w.convert, w.col_to_convert, w.target_type,
                                button = "Convert")
        r4 == SelectColumns(r3.data, w.select, w.selected_cols,
                            button = "Filter Columns")
    IN [data |-> r4.data,
        msgs |-> r1.msgs \o r2.msgs \o r3.msgs \o r4.msgs,
        applied |-> r1.applied \o r2.applied \o r3.applied \o r4.applied]

\* a widget that a run does not render loses its value
Rendered(w, loaded, data) ==
    IF ~loaded THEN Defaults
    ELSE [w EXCEPT
            !.missing_method = IF w.missing THEN @ ELSE Defaults.missing_method,
            !.fill_value = IF w.missing /\ w.missing_method = "Fill with custom value"
                           THEN @ ELSE Defaults.fill_value,
            !.col_to_convert = IF w.convert THEN @ ELSE Defaults.col_to_convert,
            !.target_type = IF w.convert THEN @ ELSE Defaults.target_type,
            !.selected_cols = IF w.select THEN @ ELSE Defaults.selected_cols,
            !.chart_type = IF Len(select_dtypes_number(data)) >= 1
                           THEN @ ELSE Defaults.chart_type]

\* lines 65-278: one run of the script
Script(file, w, button, plot_ok) ==
    IF file = None
    THEN [loaded |-> FALSE, data |-> NoTable, msgs |-> <<>>, applied |-> <<>>,
          ran |-> {}, chart |-> NoChart, export |-> NoExport, widgets |-> Defaults]
    ELSE LET l == load_data(file)
         IN IF ~l.loaded
            THEN [loaded |-> FALSE, data |-> NoTable, msgs |-> l.msgs, applied |-> <<>>,
                  ran |-> {"loader"}, chart |-> NoChart, export |-> NoExport,
                  widgets |-> Defaults]
            ELSE LET c == DataCleaningTools(l.data, w, button)
                     v == DataVisualization(c.data, w.chart_type,
                                            button = "Generate Visualization", plot_ok)
                     e == ExportProcessedData(c.data, w.export_format,
                                              button = "Export Data")
                 IN [loaded |-> TRUE, data |-> c.data,
                     msgs |-> <<Msg("success", "Successfully loaded file", 0)>>
                              \o c.msgs \o v.msgs \o e.msgs,
                     applied |-> c.applied,
                     ran |-> {"loader", "inspector", "cleaning"}
                             \cup (IF v.chart.kind # "none" THEN {"chart"} ELSE {})
                             \cup (IF e.export.format # "none" THEN {"export"} ELSE {}),
                     chart |-> v.chart, export |-> e.export,
                     widgets |-> Rendered(w, TRUE, c.data)]

\* ------------------------------------------------------------------ state
VARIABLES
    uploaded_file,  \* the file in the uploader, None when there is none
    widgets,        \* the value of every widget that keeps one between runs
    loaded,         \* whether the last run got a table from load_data
    data,           \* the working table (the script's variable data)
    msgs,           \* the messages shown, in order
    applied,        \* the cleaning steps that acted on data, in order
    ran,            \* the components the last run executed
    chart,          \* the chart the last run drew from data
    export,         \* the download the last run prepared from data
    pc,             \* the block a run that is walked block by block is about to execute
    pre,            \* in such a run, the working table before the last block
    button,         \* the button whose click started the last run, or "none"
    arg             \* in such a run, the widget values the last block read

vars == <<uploaded_file, widgets, loaded, data, msgs, applied, ran, chart, export,
          pc, pre, button, arg>>

sessionVars == <<uploaded_file, widgets, loaded, ran, chart, export>>

NoArg == [checked |-> FALSE, clicked |-> FALSE, missing_method |-> "",
          fill_value |-> NaN, col_to_convert |-> "", target_type |-> "",
          selected_cols |-> <<>>]

\* ------------------------------------------------------------------ the session
Init ==
    /\ uploaded_file = None
    /\ widgets = Defaults
    /\ loaded = FALSE
    /\ data = NoTable
    /\ msgs = <<>>
    /\ applied = <<>>
    /\ ran = {}
    /\ chart = NoChart
    /\ export = NoExport
    /\ pc = "off"
    /\ pre = NoTable
    /\ button = "none"
    /\ arg = NoArg

\* Streamlit re-runs the script with the new widget values w; b is the button
\* clicked ("none" when another widget changed)
Rerun(file, w, b, plot_ok) ==
    \E r \in {Script(file, w, b, plot_ok)} :
       /\ uploaded_file' = file
       /\ widgets' = r.widgets
       /\ loaded' = r.loaded
       /\ data' = r.data
       /\ msgs' = r.msgs
       /\ applied' = r.applied
       /\ ran' = r.ran
       /\ chart' = r.chart
       /\ export' = r.export
       /\ button' = b
       /\ UNCHANGED <<pc, pre, arg>>

\* line 49: the user puts a file in the uploader
Upload(f) ==
    /\ f # uploaded_file
    /\ Rerun(f, widgets, "none", TRUE)

\* line 98
ToggleRemoveDuplicates ==
    /\ loaded
    /\ Rerun(uploaded_file, [widgets EXCEPT !.dup = ~@], "none", TRUE)

\* line 107
ToggleHandleMissing ==
    /\ loaded
    /\ Rerun(uploaded_file, [widgets EXCEPT !.missing = ~@], "none", TRUE)

\* lines 108-113
ChooseMissingMethod(m) ==
    /\ loaded /\ widgets.missing
    /\ m # widgets.missing_method
    /\ Rerun(uploaded_file, [widgets EXCEPT !.missing_method = m], "none", TRUE)

\* line 134
EnterFillValue(v) ==
    /\ loaded /\ widgets.missing
    /\ widgets.missing_method = "Fill with custom value"
    /\ v # widgets.fill_value
    /\ Rerun(uploaded_file, [widgets EXCEPT !.fill_value = v], "none", TRUE)

\* line 135
ClickFillMissingValues ==
    /\ loaded /\ widgets.missing
    /\ widgets.missing_method = "Fill with custom value"
    /\ Rerun(uploaded_file, widgets, "Fill Missing Values", TRUE)

\* line 141
ToggleConvert ==
    /\ loaded
    /\ Rerun(uploaded_file, [widgets EXCEPT !.convert = ~@], "none", TRUE)

\* line 142
SelectColToConvert(c) ==
    /\ loaded /\ widgets.convert
    /\ c # widgets.col_to_convert
    /\ Rerun(uploaded_file, [widgets EXCEPT !.col_to_convert = c], "none", TRUE)

\* line 143
SelectTargetType(t) ==
    /\ loaded /\ widgets.convert
    /\ t # widgets.target_type
    /\ Rerun(uploaded_file, [widgets EXCEPT !.target_type = t], "none", TRUE)

\* line 145
ClickConvert ==
    /\ loaded /\ widgets.convert
    /\ Rerun(uploaded_file, widgets, "Convert", TRUE)

\* line 160
ToggleSelectColumns ==
    /\ loaded
    /\ Rerun(uploaded_file, [widgets EXCEPT !.select = ~@], "none", TRUE)

\* line 161: the user adds a column to the multiselect
AddSelectedCol(c) ==
    /\ loaded /\ widgets.select
    /\ \A i \in 1..Len(widgets.selected_cols) : widgets.selected_cols[i] # c
    /\ Rerun(uploaded_file, [widgets EXCEPT !.selected_cols = Append(@, c)],
             "none", TRUE)

\* line 161: the user removes a column from the multiselect
RemoveSelectedCol(c) ==
    /\ loaded /\ widgets.select
    /\ \E i \in 1..Len(widgets.selected_cols) : widgets.selected_cols[i] = c
    /\ Rerun(uploaded_file,
             [widgets EXCEPT !.selected_cols = SelectSeq(@, LAMBDA x : x # c)],
             "none", TRUE)

\* line 162
ClickFilterColumns ==
    /\ loaded /\ widgets.select
    /\ Rerun(uploaded_file, widgets, "Filter Columns", TRUE)

\* lines 178-181; the select box is there when the last run found a numeric column
SelectChartType(k) ==
    /\ loaded /\ Len(select_dtypes_number(data)) >= 1
    /\ k # widgets.chart_type
    /\ Rerun(uploaded_file, [widgets EXCEPT !.chart_type = k], "none", TRUE)

\* line 190
ClickGenerateVisualization ==
    /\ loaded /\ Len(select_dtypes_number(data)) >= 1
    /\ \E plot_ok \in BOOLEAN :
          /\ (widgets.chart_type = "Correlation Matrix" => plot_ok)
          /\ Rerun(uploaded_file, widgets, "Generate Visualization", plot_ok)

\* line 248
SelectExportFormat(f) ==
    /\ loaded
    /\ f # widgets.export_format
    /\ Rerun(uploaded_file, [widgets EXCEPT !.export_format = f], "none", TRUE)

\* line 251
ClickExportData ==
    /\ loaded
    /\ Rerun(uploaded_file, widgets, "Export Data", TRUE)

Next ==
    \/ \E f \in Files : Upload(f)
    \/ ToggleRemoveDuplicates
    \/ ToggleHandleMissing
    \/ \E m \in MissingMethods : ChooseMissingMethod(m)
    \/ \E v \in FillValues : EnterFillValue(v)
    \/ ClickFillMissingValues
    \/ ToggleConvert
    \/ \E c \in {"a", "b"} : SelectColToConvert(c)
    \/ \E t \in TargetTypes : SelectTargetType(t)
    \/ ClickConvert
    \/ ToggleSelectColumns
    \/ \E c \in {"a", "b"} : AddSelectedCol(c)
    \/ \E c \in {"a", "b"} : RemoveSelectedCol(c)
    \/ ClickFilterColumns
    \/ \E k \in ChartTypes : SelectChartType(k)
    \/ ClickGenerateVisualization
    \/ \E f \in ExportFormats : SelectExportFormat(f)
    \/ ClickExportData

Spec == Init /\ [][Next]_vars

\* ------------------------------------------------------------------ one run, block by block
\* The cleaning section of one run of the script on an arbitrary small file,
\* one block per step, with the widget values each block reads drawn freely.
\* At most one button is clicked in a run, and a button can only be clicked
\* when the widgets around it are rendered.

IntText(n) == [k |-> "str", n |-> n, d |-> 1, f |-> "int", s |-> ""]

Cells == {NaN, IntCell(1), IntCell(3), IntText(1), Lit("x")}

\* a decoder never yields a column that mixes numbers and text
Homogeneous(rows, c) ==
    ~(/\ \E i \in 1..Len(rows) : rows[i][c].k = "num"
      /\ \E i \in 1..Len(rows) : rows[i][c].k = "str")

SmallFiles ==
    {File("t", ".csv", TRUE, rows) :
        rows \in {r \in UNION {[1..n -> [{"a", "b"} -> Cells]] : n \in 0..MaxRows} :
                     Homogeneous(r, "a") /\ Homogeneous(r, "b")}}

Selections == {<<>>, <<"a">>, <<"b">>, <<"a", "b">>, <<"b", "a">>}

InitPass ==
    /\ uploaded_file \in SmallFiles
    /\ widgets = Defaults
    /\ loaded = TRUE
    /\ data = load_data(uploaded_file).data
    /\ msgs = <<>>
    /\ applied = <<>>
    /\ ran = {"loader", "inspector"}
    /\ chart = NoChart
    /\ export = NoExport
    /\ pc = "Remove Duplicate Rows"
    /\ pre = NoTable
    /\ button \in {"none", "Fill Missing Values", "Convert", "Filter Columns"}
    /\ arg = NoArg

\* the block replaces the working table and shows its messages
Block(r, a, next) ==
    /\ pre' = data
    /\ data' = r.data
    /\ msgs' = r.msgs
    /\ applied' = r.applied
    /\ arg' = a
    /\ pc' = next
    /\ UNCHANGED <<button, sessionVars>>

\* lines 98-104
PassRemoveDuplicateRows ==
    /\ pc = "Remove Duplicate Rows"
    /\ \E checked \in BOOLEAN :
          Block(RemoveDuplicateRows(data, checked),
                [NoArg EXCEPT !.checked = checked],
                "Handle Missing Values")

\* lines 107-137
PassHandleMissingValues ==
    /\ pc = "Handle Missing Values"
    /\ \E checked \in BOOLEAN, m \in MissingMethods, v \in FillValues :
          /\ button = "Fill Missing Values" => checked /\ m = "Fill with custom value"
          /\ ~checked => m = Defaults.missing_method
          /\ ~(checked /\ m = "Fill with custom value") => v = Defaults.fill_value
          /\ Block(HandleMissingValues(data, checked, m, v,
                                       button = "Fill Missing Values"),
                   [NoArg EXCEPT !.checked = checked,
                                 !.clicked = (button = "Fill Missing Values"),
                                 !.missing_method = IF checked THEN m ELSE "",
                                 !.fill_value = IF button = "Fill Missing Values"
                                                THEN v ELSE NaN],
                   "Convert Column Data Types")

\* lines 141-157
PassConvertColumnType ==
    /\ pc = "Convert Column Data Types"
    /\ \E checked \in BOOLEAN, c \in {"a", "b"}, t \in TargetTypes :
          /\ button = "Convert" => checked
          /\ button # "Convert" => c = Defaults.col_to_convert /\ t = Defaults.target_type
          /\ Block(ConvertColumnType(data, checked, c, t, button = "Convert"),
                   [NoArg EXCEPT !.checked = checked,
                                 !.clicked = (button = "Convert"),
                                 !.col_to_convert = IF button = "Convert" THEN c ELSE "",
                                 !.target_type = IF button = "Convert" THEN t ELSE ""],
                   "Select Columns to Keep")

\* lines 160-167
PassSelectColumns ==
    /\ pc = "Select Columns to Keep"
    /\ \E checked \in BOOLEAN, sel \in Selections :
          /\ button = "Filter Columns" => checked
          /\ button # "Filter Columns" => sel = Defaults.selected_cols
          /\ Block(SelectColumns(data, checked, sel, button = "Filter Columns"),
                   [NoArg EXCEPT !.checked = checked,
                                 !.clicked = (button = "Filter Columns"),
                                 !.selected_cols = IF button = "Filter Columns"
                                                   THEN sel ELSE <<>>],
                   "Data Visualization")

NextPass ==
    \/ PassRemoveDuplicateRows
    \/ PassHandleMissingValues
    \/ PassConvertColumnType
    \/ PassSelectColumns

SpecPass == InitPass /\ [][NextPass]_vars

\* ------------------------------------------------------------------ properties
HasMsg(level, text) ==
    \E i \in 1..Len(msgs) : msgs[i].level = level /\ msgs[i].text = text

HasCount(text, count) ==
    \E i \in 1..Len(msgs) : msgs[i].text = text /\ msgs[i].count = count

AfterRemoveDuplicates == pc = "Handle Missing Values"

AfterHandleMissing == pc = "Convert Column Data Types"

AfterConvert == pc = "Select Columns to Keep"

AfterSelect == pc = "Data Visualization"

\* a cell that has no value of the target type: a text that is not a number
\* for "number", a text that is not a date for "date"
Uncoercible(c, target_type) ==
    \/ target_type = "number" /\ c.k = "str" /\ c.f = "lit" /\ c.s # "nan"
    \/ target_type = "date" /\ c.k = "str" /\ c # Lit("1970-01-01")

\* C1: when the Convert button is clicked and some value of the chosen column
\* cannot be coerced to the target type, the block reports an error and the
\* working table after the block is the table before it, in every column and
\* every row; the block never reports an error and changes the table.
C1_ConvertFailsAtomically ==
    (AfterConvert /\ arg.clicked) =>
        LET failed == HasMsg("error", "Error converting column")
            bad == \E i \in 1..Len(pre.rows) :
                      Uncoercible(pre.rows[i][arg.col_to_convert], arg.target_type)
        IN (bad \/ failed) => (failed /\ data = pre /\ applied = <<>>)

\* C1 witness: converting to number a column whose first cell is the text "1"
\* and whose later cell is the text "x" failed and left the table as it was
C1_Witness ==
    /\ AfterConvert /\ arg.clicked /\ arg.target_type = "number"
    /\ HasMsg("error", "Error converting column")
    /\ \E i, j \in 1..Len(pre.rows) :
          /\ i < j
          /\ pre.rows[i][arg.col_to_convert] = IntText(1)
          /\ pre.rows[j][arg.col_to_convert] = Lit("x")
    /\ data = pre

\* the positions of the rows of t that equal no earlier row
FirstOccurrences(t) ==
    {i \in 1..Len(t.rows) : \A j \in 1..(i - 1) : t.rows[j] # t.rows[i]}

\* the k-th smallest element of the set of positions S
Kth(S, k) == CHOOSE i \in S : Cardinality({j \in S : j <= i}) = k

\* C4: with the Remove Duplicate Rows box ticked, the block removes exactly the
\* rows that equal an earlier row in all columns, keeps the others in order,
\* reports the number removed, and applying the block again to its result
\* removes nothing and yields the same table.
C4_RemoveDuplicatesIdempotent ==
    (AfterRemoveDuplicates /\ arg.checked) =>
        LET kept == FirstOccurrences(pre)
            removed == Len(pre.rows) - Len(data.rows)
            again == RemoveDuplicateRows(data, TRUE)
        IN /\ data.columns = pre.columns
           /\ data.dtypes = pre.dtypes
           /\ Len(data.rows) = Cardinality(kept)
           /\ \A k \in 1..Len(data.rows) : data.rows[k] = pre.rows[Kth(kept, k)]
           /\ removed > 0 => msgs = <<Msg("success", "Removed duplicate rows", removed)>>
           /\ removed = 0 => msgs = <<Msg("info", "No duplicates found", 0)>>
           /\ again.data = data
           /\ again.msgs = <<Msg("info", "No duplicates found", 0)>>

\* C4 witness: a three-row table whose third row repeats the first and whose
\* second row differs lost exactly its third row
C4_Witness ==
    /\ AfterRemoveDuplicates /\ arg.checked
    /\ Len(pre.rows) = 3
    /\ pre.rows[3] = pre.rows[1] /\ pre.rows[2] # pre.rows[1]
    /\ data.rows = <<pre.rows[1], pre.rows[2]>>
    /\ HasCount("Removed duplicate rows", 1)

\* C7: after the Fill Missing Values button is clicked with a non-empty value
\* v, no cell of any column is missing, every cell that was missing holds v,
\* every cell that was not missing keeps its value, and the row count and
\* the columns are unchanged.
C7_FillConstantLeavesNoMissing ==
    (AfterHandleMissing /\ arg.clicked) =>
        /\ arg.fill_value \in FillValues
        /\ data.columns = pre.columns
        /\ Len(data.rows) = Len(pre.rows)
        /\ \A i \in 1..Len(pre.rows) : \A c \in ColSet(pre) :
              /\ ~isnull(data.rows[i][c])
              /\ isnull(pre.rows[i][c]) => data.rows[i][c] = arg.fill_value
              /\ ~isnull(pre.rows[i][c]) => data.rows[i][c] = pre.rows[i][c]

\* C7 witness: a numeric column with a missing cell and a number was filled
C7_Witness ==
    /\ AfterHandleMissing /\ arg.clicked
    /\ \E c \in ColSet(pre) :
          /\ pre.dtypes[c] = "float64"
          /\ \E i, j \in 1..Len(pre.rows) :
                /\ isnull(pre.rows[i][c]) /\ pre.rows[j][c].k = "num"
                /\ data.rows[i][c] = arg.fill_value
                /\ data.rows[j][c] = pre.rows[j][c]

MeanApplied ==
    /\ AfterHandleMissing /\ arg.checked
    /\ arg.missing_method = "Fill numeric columns with mean"

NumericColSet(t) == {c \in ColSet(t) : t.dtypes[c] \in NumericDtypes}

\* the number in cell x is the mean of the non-missing cells of column c of t
IsMeanOf(x, t, c) ==
    /\ x.k = "num"
    /\ x.n * SumD(t, c, 1) * CountNotNull(t, c) = SumN(t, c, 1) * x.d

\* C8 as stated: after Fill numeric columns with mean on a table with at
\* least one numeric column, no numeric column contains a missing value.
C8_Original ==
    (MeanApplied /\ NumericColSet(pre) # {}) =>
        \A c \in NumericColSet(pre) : ~ColHasNull(data, c)

\* C8 as amended: after Fill numeric columns with mean, every numeric column
\* that had at least one non-missing value contains no missing value, each
\* cell that was missing holding the mean of the column's non-missing values
\* and every other cell its old value; a numeric column whose values were all
\* missing, and every non-numeric column, is left as it was; a second
\* application changes nothing.
C8_FillMeanFillsColumnsWithAValue ==
    (MeanApplied /\ NumericColSet(pre) # {}) =>
        /\ data.columns = pre.columns
        /\ Len(data.rows) = Len(pre.rows)
        /\ \A c \in ColSet(pre) : \A i \in 1..Len(pre.rows) :
              IF c \in NumericColSet(pre) /\ CountNotNull(pre, c) > 0
              THEN /\ ~isnull(data.rows[i][c])
                   /\ isnull(pre.rows[i][c]) => IsMeanOf(data.rows[i][c], pre, c)
                   /\ ~isnull(pre.rows[i][c]) => data.rows[i][c] = pre.rows[i][c]
              ELSE data.rows[i][c] = pre.rows[i][c]
        /\ FillMissingWithMean(data).data = data

\* C8 witness: the column 1, missing, 3 (in some order) had its missing cell
\* replaced by 2
C8_Witness ==
    /\ MeanApplied
    /\ \E c \in NumericColSet(pre) : \E i, j, l \in 1..Len(pre.rows) :
          /\ pre.rows[i][c] = IntCell(1)
          /\ isnull(pre.rows[j][c])
          /\ pre.rows[l][c] = IntCell(3)
          /\ data.rows[j][c] = IntCell(2)

\* C10: when the Filter Columns button is clicked with a non-empty selection,
\* the working table afterwards has exactly the selected columns in the order
\* given, with every row and every cell of those columns unchanged; with an
\* empty selection a warning is shown and the working table is unchanged.
C10_SelectColumnsNarrowsOrNothing ==
    (AfterSelect /\ arg.clicked) =>
        IF arg.selected_cols # <<>>
        THEN /\ data.columns = arg.selected_cols
             /\ Len(data.rows) = Len(pre.rows)
             /\ \A c \in ColSet(data) :
                   /\ c \in ColSet(pre)
                   /\ data.dtypes[c] = pre.dtypes[c]
                   /\ \A i \in 1..Len(pre.rows) : data.rows[i][c] = pre.rows[i][c]
             /\ msgs = <<Msg("success", "Kept columns", Len(arg.selected_cols))>>
        ELSE /\ data = pre
             /\ msgs = <<Msg("warning", "Please select at least one column", 0)>>

\* C10 witness: selecting b then a on a table with rows put b before a
C10_Witness ==
    /\ AfterSelect /\ arg.clicked
    /\ arg.selected_cols = <<"b", "a">>
    /\ Len(pre.rows) > 0
    /\ pre.columns = <<"a", "b">>
    /\ data.columns = <<"b", "a">>

\* the run of the scenario: the file a,b / 1,2 / 1,2 / 3, with Remove Duplicate
\* Rows ticked and then Drop rows with any missing values
ScenarioRun ==
    /\ uploaded_file = ScenarioCsv
    /\ applied = <<"RemoveDuplicates", "DropMissing">>

\* C5 as stated: on the scenario file RemoveDuplicates removes 1 row, DropMissing
\* applied next removes 1 row, and the final table has 0 rows.
C5_Original ==
    ScenarioRun =>
        /\ HasCount("Removed duplicate rows", 1)
        /\ HasCount("Dropped rows with missing values", 1)
        /\ shape0(data) = 0

\* C5 as amended: on the scenario file RemoveDuplicates removes 1 row,
\* DropMissing applied next removes 1 row, and the final table has 1 row,
\* the row (1, 2).
C5_ScenarioLeavesOneRow ==
    ScenarioRun =>
        /\ HasCount("Removed duplicate rows", 1)
        /\ HasCount("Dropped rows with missing values", 1)
        /\ shape0(data) = 1
        /\ data.rows = <<Row(IntCell(1), IntCell(2))>>

\* C5 witness: the scenario has been run
C5_Witness == ScenarioRun /\ shape0(data) = 1

CorrelationRequested ==
    /\ button = "Generate Visualization"
    /\ widgets.chart_type = "Correlation Matrix"

\* C6 as stated: a Correlation Matrix request on a working table with fewer
\* than 2 numeric columns reports an error and draws no chart; a matrix is
\* drawn only when the table has at least 2 numeric columns.
C6_Original ==
    /\ (CorrelationRequested /\ Len(select_dtypes_number(data)) < 2) =>
          /\ chart.kind # "Correlation Matrix"
          /\ HasMsg("error", "Error generating visualization")
    /\ chart.kind = "Correlation Matrix" => Len(select_dtypes_number(data)) >= 2

\* C6 as amended: on a working table with no numeric column the page shows a
\* warning and draws no chart; a Correlation Matrix request on a table with
\* at least 1 numeric column draws the matrix over all the numeric columns
\* and reports no error.
C6_CorrelationNeedsOneNumericColumn ==
    /\ (loaded /\ Len(select_dtypes_number(data)) = 0) =>
          /\ chart = NoChart
          /\ HasMsg("warning", "Your dataset needs numeric columns")
    /\ CorrelationRequested =>
          /\ Len(select_dtypes_number(data)) >= 1
          /\ chart.kind = "Correlation Matrix"
          /\ chart.columns = select_dtypes_number(data)
          /\ ~HasMsg("error", "Error generating visualization")

\* C6 witness: a matrix was drawn for a table with exactly one numeric column
C6_Witness ==
    /\ CorrelationRequested
    /\ Len(select_dtypes_number(data)) = 1
    /\ chart.kind = "Correlation Matrix"

\* C9: when the uploaded file has an extension other than .csv, .xls and .xlsx,
\* or its decoding raises, the run reports an error, has no table, and
\* executes no inspector, cleaning, chart or export operation.
C9_LoadFailureStopsTheRun ==
    (/\ uploaded_file # None
     /\ \/ uploaded_file.ext \notin {".csv", ".xls", ".xlsx"}
        \/ ~uploaded_file.ok) =>
        /\ ~loaded
        /\ data = NoTable
        /\ \/ msgs = <<Msg("error", "Unsupported file type!", 0)>>
           \/ msgs = <<Msg("error", "Error loading file", 0)>>
        /\ ran \cap {"inspector", "cleaning", "chart", "export"} = {}
        /\ applied = <<>>
        /\ chart = NoChart
        /\ export = NoExport

\* C9 witness: the file with the extension .CSV was refused
C9_Witness ==
    /\ uploaded_file = UpperCsv
    /\ msgs = <<Msg("error", "Unsupported file type!", 0)>>
    /\ ran = {"loader"}

\* C2: whatever step the user triggers, the working table after the run is
\* that step applied to the working table as the steps triggered before left
\* it (the result of A then B is B applied to the result of A).  A step is
\* triggered by ticking its box (Remove Duplicate Rows; Handle Missing Values,
\* which starts on Drop rows with any missing values) or by clicking its
\* button; changing the radio of an open block replaces a step and is not
\* counted.
C2_StepsApplyInInvocationOrder ==
    [][(loaded /\ loaded' /\ uploaded_file' = uploaded_file) =>
         /\ (~widgets.dup /\ widgets'.dup) =>
               data' = RemoveDuplicateRows(data, TRUE).data
         /\ (~widgets.missing /\ widgets'.missing) =>
               data' = DropMissing(data).data
         /\ button' = "Fill Missing Values" =>
               data' = fillna(data, widgets'.fill_value)
         /\ (button' = "Convert" /\ HasMsg("success", "Converted column")') =>
               /\ widgets'.col_to_convert \in ColSet(data)
               /\ data' = AssignConverted(data, widgets'.col_to_convert,
                                          widgets'.target_type)
         /\ (button' = "Filter Columns" /\ widgets'.selected_cols # <<>>) =>
               /\ \A i \in 1..Len(widgets'.selected_cols) :
                     widgets'.selected_cols[i] \in ColSet(data)
               /\ data' = getitem_columns(data, widgets'.selected_cols)
      ]_vars

\* C3: once a cleaning step has acted on the working table, a Generate
\* Visualization or Export Data run on the same file that follows operates on
\* a table to which that step has been applied.
C3_ReadersSeeCommittedSteps ==
    [][(/\ uploaded_file' = uploaded_file
        /\ ("chart" \in ran' \/ "export" \in ran')) =>
         \A i \in 1..Len(applied) :
            \E j \in 1..Len(applied') : applied'[j] = applied[i]
      ]_vars

====
